---- MODULE Spec2Model ----
(***************************************************************************)
(* Model of soopervisor.commons.docker.build: the pipeline that packages   *)
(* a project once per dependency group and drives docker build / run /     *)
(* tag / push through a Commander.                                         *)
(*                                                                         *)
(* Strings (paths, patterns, tags, messages) are sequences of tokens, so   *)
(* that substring tests and replacements are computed and not assumed;     *)
(* Render turns a token sequence into the string the Commander receives.   *)
(***************************************************************************)
EXTENDS Integers, Sequences, FiniteSets, TLC

VARIABLES
    fs,                     \* files present under the project root
    repository,             \* cfg.repository
    until,                  \* build's until argument
    skip_tests,             \* build's skip_tests argument
    version,                \* version found by find_package_name_and_version
    pc,                     \* position inside build
    dependency_files,       \* first value returned by get_dependencies
    lock_paths,             \* second value returned by get_dependencies
    idx,                    \* position of the for loop in lock_paths
    image_local,            \* local tag of the current iteration
    image_target,           \* published reference of the current iteration
    task_pattern_image_map, \* the accumulated result mapping
    calls,                  \* commander operations issued so far, in order
    outcome,                \* "running", "returned" or the exception raised
    message,                \* message (or argument) of the exception raised
    returned,               \* value returned by build, <<>> while there is none
    cfg_include,            \* cfg.include
    cfg_exclude,            \* cfg.exclude
    home,                   \* the telemetry home directory: None, or <<its entries>>
    cwd,                    \* working directory, relative to the project root
    root_dist,              \* entries of dist/ at the project root, {} if absent
    env_dist,               \* entries of dist/ in the environment directory
    env_files,              \* lock files copied into the environment directory
    exclude,                \* exclude list of the last call of source.copy
    rename_files            \* rename map of the last call of source.copy

inputs == <<fs, repository, until, skip_tests, version, cfg_include,
            cfg_exclude, home>>

disk == <<cwd, root_dist, env_dist, env_files>>

selection == <<exclude, rename_files>>

vars == <<inputs, pc, dependency_files,
          lock_paths, idx, image_local, image_target, task_pattern_image_map,
          calls, outcome, message, returned, disk, selection>>

----------------------------------------------------------------------------
(* Bounds *)

\* at most this many declaration/lock pairs lie at the project root
MaxPairs == 3

----------------------------------------------------------------------------
(* Strings *)

RECURSIVE Render(_)
Render(s) == IF s = <<>> THEN "" ELSE Head(s) \o Render(Tail(s))

RECURSIVE RenderAll(_)
RenderAll(ss) == IF ss = <<>> THEN <<>>
                 ELSE <<Render(Head(ss))>> \o RenderAll(Tail(ss))

\* Python's `x in s` for a one-token x
Contains(s, x) == \E k \in 1..Len(s) : s[k] = x

\* Python's repr() of a str without quotes inside
Repr(s) == <<"'">> \o s \o <<"'">>

\* None and '' are the falsy values of cfg.repository
None == <<>>

\* the value soopervisor.yaml carries until the user edits it
Placeholder == <<"your-repository/name">>

PlainRepository == <<"repo.example.com/project">>

TaggedRepository == <<"repo.example.com/project", ":", "1.2">>

Repositories == {None, Placeholder, PlainRepository, TaggedRepository}

Untils == {"None", "build", "push"}

Versions == {<<"1.2">>, <<"latest">>}

\* name found by find_package_name_and_version
pkg_name == <<"sample_project">>

env_name == <<"serve">>

entry_point == <<"pipeline.yaml">>

Default == <<"default">>

\* task patterns a project may declare besides the default one
Patterns == {Default, <<"fit", "-", "*">>, <<"fit", "-", "ploomber">>,
             <<"requirements">>}

Kinds == {<<"requirements", "txt">>, <<"environment", "yml">>}

\* the declaration/lock pairs a root may hold: the pattern 'requirements' is
\* tried with the environment kind
RootPairs ==
    (Kinds \X Patterns) \ {<<(<<"requirements", "txt">>), (<<"requirements">>)>>}

DeclarationFile(kind, task) ==
    IF task = Default THEN <<kind[1], ".", kind[2]>>
    ELSE <<kind[1], ".">> \o task \o <<".", kind[2]>>

LockFile(kind, task) ==
    IF task = Default THEN <<kind[1], ".", "lock", ".", kind[2]>>
    ELSE <<kind[1], ".">> \o task \o <<".", "lock", ".", kind[2]>>

Dockerfile == env_name \o <<"/", "Dockerfile">>

SetupPy == <<"setup", ".", "py">>

\* the files of a set of (kind, task) pairs: each declaration with its lock
PairFiles(pairs) ==
    UNION {{DeclarationFile(p[1], p[2]), LockFile(p[1], p[2])} : p \in pairs}

----------------------------------------------------------------------------
(* Pure functions of docker.py *)

\* Python's s.replace(old, new) for a one-token old
RECURSIVE replace(_, _, _)
replace(s, old, new) ==
    IF s = <<>> THEN <<>>
    ELSE (IF Head(s) = old THEN new ELSE <<Head(s)>>) \o replace(Tail(s), old, new)

modify_wildcard(entity) == replace(entity, "*", <<"ploomber">>)

\* the placeholder is accepted like any other value
validate_repository_Mutant(repo) == <<>>

\* the message of the ConfigurationError, <<>> when the value is accepted
validate_repository(repo) ==
    IF repo = Placeholder
    THEN <<"Invalid repository ">> \o Repr(repo)
         \o <<" in soopervisor.yaml, please add a valid value.">>
    ELSE <<>>

\* the wildcard is left in the tag
LocalTag_Mutant(pattern) == pkg_name \o <<":">> \o version \o <<"-">> \o pattern

\* f'{pkg_name}:{version}-{task.replace("*","ploomber")}'
LocalTag(pattern) ==
    pkg_name \o <<":">> \o version \o <<"-">> \o replace(pattern, "*", <<"ploomber">>)

\* the version is appended also to a repository that carries a tag
RemoteTag_Mutant(repo, pattern) ==
    repo \o <<":">> \o version \o <<"-">> \o modify_wildcard(pattern)

\* the remote tag computed when cfg.repository is set
RemoteTag(repo, pattern) ==
    IF ~Contains(repo, ":")
    THEN repo \o <<":">> \o version \o <<"-">> \o modify_wildcard(pattern)
    ELSE repo

----------------------------------------------------------------------------
(* Dependency discovery *)

RECURSIVE Orderings(_)
Orderings(S) ==
    IF S = {} THEN {<<>>}
    ELSE UNION {{<<x>> \o o : o \in Orderings(S \ {x})} : x \in S}

\* the groups get_task_dependency_files(prefix, suffix) can return: one per
\* declaration/lock pair of that kind at the root, in directory order
get_task_dependency_files(kind) ==
    Orderings({[task |-> t,
                dependency |-> DeclarationFile(kind, t),
                lock |-> LockFile(kind, t)] :
               t \in {t \in Patterns :
                        /\ DeclarationFile(kind, t) \in fs
                        /\ LockFile(kind, t) \in fs}})

check_lock_files_exist ==
    \/ LockFile(<<"environment", "yml">>, Default) \in fs
    \/ LockFile(<<"requirements", "txt">>, Default) \in fs

----------------------------------------------------------------------------
(* Configuration of the source selection *)

Secrets == <<"secrets", ".", "txt">>

Notes == <<"notes", ".", "md">>

\* the (cfg.include, cfg.exclude) pairs of the model; None is the empty list
Configs ==
    {<<None, None>>,
     <<None, <<Secrets>> >>,
     <<(<<Notes>>), <<Secrets>> >>,
     <<(<<Secrets>>), <<Secrets>> >>,
     <<(<<LockFile(<<"requirements", "txt">>, <<"fit", "-", "*">>)>>), None>>,
     <<None, <<LockFile(<<"requirements", "txt">>, Default)>> >>}

----------------------------------------------------------------------------
(* Working directory and generated files *)

\* the project root, where build is entered
Root == <<>>

\* the working directory is never changed
Chdir_Mutant(dir, d) == dir

\* os.chdir(d) from directory dir, for a one-level d
Chdir(dir, d) ==
    IF d = <<"..">> THEN (IF dir = Root THEN <<"..">> ELSE Root)
    ELSE dir \o d

\* the value a commander operation leaves: new if it returned, old if it raised
Then(new, old) == IF pc' = "done" THEN old ELSE new

\* 'dist' is removed from the root and from the environment directory alike
RmDistEffect_Mutant ==
    /\ root_dist' = Then({}, root_dist)
    /\ env_dist' = Then({}, env_dist)
    /\ UNCHANGED <<cwd, env_files>>

\* e.rm('dist', ...): 'dist' is resolved against the working directory
RmDistEffect ==
    /\ root_dist' = IF cwd = Root THEN Then({}, root_dist) ELSE root_dist
    /\ env_dist' = IF cwd = env_name THEN Then({}, env_dist) ELSE env_dist
    /\ UNCHANGED <<cwd, env_files>>

\* the archive 'python -m build --sdist' leaves in dist/
SdistArchive ==
    [name |-> Render(pkg_name \o <<"-">> \o version \o <<".tar.gz">>),
     task |-> Default,
     files |-> {}]

----------------------------------------------------------------------------
(* The Commander *)

Cp(path) == [op |-> "cp", args |-> <<Render(path)>>]
Rm(paths) == [op |-> "rm", args |-> RenderAll(paths)]
Cd(path) == [op |-> "cd", args |-> <<Render(path)>>]
Run(args, description) ==
    [op |-> "run", args |-> RenderAll(args), description |-> description]

Raise(type, msg) ==
    /\ pc' = "done"
    /\ outcome' = type
    /\ message' = msg

Goto(label) ==
    /\ pc' = label
    /\ UNCHANGED <<outcome, message>>

\* the failure of an operation is swallowed and build goes on
Issue_Mutant(call, label) ==
    /\ \E ok \in BOOLEAN : calls' = Append(calls, call @@ [ok |-> ok])
    /\ Goto(label)

\* a commander operation: it is issued, and it returns or raises
Issue(call, label) ==
    \/ /\ calls' = Append(calls, call @@ [ok |-> TRUE])
       /\ Goto(label)
    \/ /\ calls' = Append(calls, call @@ [ok |-> FALSE])
       /\ Raise("CommanderException", <<call.op>>)

----------------------------------------------------------------------------

\* build is entered with any arguments, on a root where every declaration
\* file lies next to its lock file
Init ==
    /\ \E pairs \in SUBSET RootPairs, extra \in SUBSET {Dockerfile, SetupPy} :
          /\ Cardinality(pairs) <= MaxPairs
          /\ fs = PairFiles(pairs) \cup extra
    /\ repository \in Repositories
    /\ until \in Untils
    /\ skip_tests \in BOOLEAN
    /\ version \in Versions
    /\ pc = "start"
    /\ dependency_files = <<>>
    /\ lock_paths = <<>>
    /\ idx = 1
    /\ image_local = <<>>
    /\ image_target = <<>>
    /\ task_pattern_image_map = <<>>
    /\ calls = <<>>
    /\ outcome = "running"
    /\ message = <<>>
    /\ returned = <<>>
    /\ \E c \in Configs : cfg_include = c[1] /\ cfg_exclude = c[2]
    /\ home \in {None, <<{"stats"}>>}
    /\ cwd = Root
    /\ root_dist = {}
    /\ env_dist = {}
    /\ env_files = {}
    /\ exclude = <<>>
    /\ rename_files = <<>>

\* the repository is validated before the Dockerfile is looked for
CheckDockerfile_Mutant ==
    /\ pc = "start"
    /\ IF validate_repository(repository) # <<>>
       THEN Raise("ConfigurationError", validate_repository(repository))
       ELSE IF Dockerfile \notin fs
            THEN Raise("MissingDockerfileError", env_name)
            ELSE Goto("validate")
    /\ UNCHANGED <<inputs, dependency_files, lock_paths, idx, image_local,
                   image_target, task_pattern_image_map, calls, returned>>
    /\ UNCHANGED <<disk, selection>>

CheckDockerfile ==
    /\ pc = "start"
    /\ IF Dockerfile \notin fs
       THEN Raise("MissingDockerfileError", env_name)
       ELSE Goto("validate")
    /\ UNCHANGED <<inputs, dependency_files, lock_paths, idx, image_local,
                   image_target, task_pattern_image_map, calls, returned>>
    /\ UNCHANGED <<disk, selection>>

ValidateRepository ==
    /\ pc = "validate"
    /\ IF validate_repository(repository) # <<>>
       THEN Raise("ConfigurationError", validate_repository(repository))
       ELSE Goto("locks")
    /\ UNCHANGED <<inputs, dependency_files, lock_paths, idx, image_local,
                   image_target, task_pattern_image_map, calls, returned>>
    /\ UNCHANGED <<disk, selection>>

\* the lock files are not looked for before the discovery
CheckLockFiles_Mutant ==
    /\ pc = "locks"
    /\ Goto("deps")
    /\ UNCHANGED <<inputs, dependency_files, lock_paths, idx, image_local,
                   image_target, task_pattern_image_map, calls, returned>>
    /\ UNCHANGED <<disk, selection>>

\* source.find_package_name_and_version() yields pkg_name and version; then
\* dependencies.check_lock_files_exist()
CheckLockFiles ==
    /\ pc = "locks"
    /\ IF ~check_lock_files_exist
       THEN Raise("ClickException",
                  <<"Expected requirements.lock.txt or environment.lock.yml at ",
                    "the root directory">>)
       ELSE Goto("deps")
    /\ UNCHANGED <<inputs, dependency_files, lock_paths, idx, image_local,
                   image_target, task_pattern_image_map, calls, returned>>
    /\ UNCHANGED <<disk, selection>>

\* the groups of the two kinds are merged
get_dependencies_Mutant(requirement_files, environment_files) ==
    LET files == requirement_files \o environment_files
    IN  <<files,
          [k \in DOMAIN files |-> [task |-> files[k].task, lock |-> files[k].lock]]>>

\* get_dependencies() on the two results of get_task_dependency_files
get_dependencies(requirement_files, environment_files) ==
    LET files == IF requirement_files # <<>> THEN requirement_files
                 ELSE environment_files
    IN  <<files,
          [k \in DOMAIN files |-> [task |-> files[k].task, lock |-> files[k].lock]]>>

GetDependencies ==
    /\ pc = "deps"
    /\ \E rf \in get_task_dependency_files(<<"requirements", "txt">>),
          ef \in get_task_dependency_files(<<"environment", "yml">>) :
          /\ dependency_files' = get_dependencies(rf, ef)[1]
          /\ lock_paths' = get_dependencies(rf, ef)[2]
    /\ Goto("loop")
    /\ UNCHANGED <<inputs, idx, image_local, image_target,
                   task_pattern_image_map, calls, returned>>
    /\ UNCHANGED <<disk, selection>>

\* the groups are taken from the last one to the first
task_Mutant == lock_paths[Len(lock_paths) + 1 - idx].task

task == lock_paths[idx].task

lock_file == lock_paths[idx].lock

\* the for loop is exhausted: e.info(...) and return
Return ==
    /\ pc = "loop"
    /\ idx > Len(lock_paths)
    /\ pc' = "done"
    /\ outcome' = "returned"
    /\ returned' = <<pkg_name, task_pattern_image_map>>
    /\ UNCHANGED <<inputs, dependency_files, lock_paths, idx, image_local,
                   image_target, task_pattern_image_map, calls, message>>
    /\ UNCHANGED <<disk, selection>>

\* the lock file is not copied before the packaging
CpLock_Mutant ==
    /\ pc = "loop"
    /\ idx <= Len(lock_paths)
    /\ Goto("package")
    /\ UNCHANGED <<inputs, dependency_files, lock_paths, idx, image_local,
                   image_target, task_pattern_image_map, returned>>
    /\ UNCHANGED <<calls, disk, selection>>

CpLock ==
    /\ pc = "loop"
    /\ idx <= Len(lock_paths)
    /\ IF lock_file \in fs
       THEN /\ Issue(Cp(lock_file), "package")
            /\ env_files' = Then(env_files \cup {lock_file}, env_files)
       ELSE Goto("package") /\ UNCHANGED <<calls, env_files>>
    /\ UNCHANGED <<inputs, dependency_files, lock_paths, idx, image_local,
                   image_target, task_pattern_image_map, returned>>
    /\ UNCHANGED <<cwd, root_dist, env_dist, selection>>

\* some key of dependency_files is not 'default'
HasTaskPattern == \E k \in DOMAIN dependency_files : dependency_files[k].task # Default

MultipleLockFiles ==
    /\ pc = "package"
    /\ SetupPy \in fs
    /\ HasTaskPattern
    /\ Raise("NotImplementedError",
             <<"Multiple requirements.*.lock.txt or ",
               "environment.*.lock.yml files found along ",
               "with setup.py file. Please have either ",
               "of the two in the project root.">>)
    /\ UNCHANGED <<inputs, dependency_files, lock_paths, idx, image_local,
                   image_target, task_pattern_image_map, calls, returned>>
    /\ UNCHANGED <<disk, selection>>

\* the package path copies the sources instead of building the sdist
RmPackage_Mutant ==
    /\ pc = "package"
    /\ SetupPy \in fs
    /\ ~HasTaskPattern
    /\ Issue(Rm(<<(<<"dist">>), (<<"build">>),
                  <<"src", "/">> \o pkg_name \o <<"/">> \o pkg_name \o <<".egg-info">>>>),
             "copy")
    /\ RmDistEffect
    /\ UNCHANGED <<inputs, dependency_files, lock_paths, idx, image_local,
                   image_target, task_pattern_image_map, returned>>
    /\ UNCHANGED selection

RmPackage ==
    /\ pc = "package"
    /\ SetupPy \in fs
    /\ ~HasTaskPattern
    /\ Issue(Rm(<<(<<"dist">>), (<<"build">>),
                  <<"src", "/">> \o pkg_name \o <<"/">> \o pkg_name \o <<".egg-info">>>>),
             "sdist")
    /\ RmDistEffect
    /\ UNCHANGED <<inputs, dependency_files, lock_paths, idx, image_local,
                   image_target, task_pattern_image_map, returned>>
    /\ UNCHANGED selection

Sdist ==
    /\ pc = "sdist"
    /\ Issue(Run(<<(<<"python">>), (<<"-m">>), (<<"build">>), (<<"--sdist">>)>>,
                 "Packaging code"),
             "cp_dist")
    /\ root_dist' = Then(root_dist \cup {SdistArchive}, root_dist)
    /\ UNCHANGED <<inputs, dependency_files, lock_paths, idx, image_local,
                   image_target, task_pattern_image_map, returned>>
    /\ UNCHANGED <<cwd, env_dist, env_files, selection>>

RmDist ==
    /\ pc = "package"
    /\ SetupPy \notin fs
    /\ Issue(Rm(<<(<<"dist">>)>>), "copy")
    /\ RmDistEffect
    /\ UNCHANGED <<inputs, dependency_files, lock_paths, idx, image_local,
                   image_target, task_pattern_image_map, returned>>
    /\ UNCHANGED selection

Range(seq) == {seq[k] : k \in DOMAIN seq}

IsOtherLockFile(file) == file # lock_file

\* no lock file of another group is collected
other_lock_files_Mutant == <<>>

\* [file for file in list(lock_paths.values()) if file != lock_file]
other_lock_files ==
    SelectSeq([k \in DOMAIN lock_paths |-> lock_paths[k].lock], IsOtherLockFile)

\* the lock files of the other groups are not added to the exclude list
effective_exclude_Mutant == cfg_exclude

\* the exclude argument of source.copy
effective_exclude ==
    IF cfg_exclude # None /\ other_lock_files # <<>>
    THEN cfg_exclude \o other_lock_files
    ELSE IF cfg_exclude = None /\ other_lock_files # <<>>
         THEN other_lock_files
         ELSE cfg_exclude

\* the rename_files argument of source.copy
rename_map ==
    IF Contains(lock_file, "requirements")
    THEN [f \in {lock_file} |-> <<"requirements", ".", "lock", ".", "txt">>]
    ELSE [f \in {lock_file} |-> <<"environment", ".", "lock", ".", "yml">>]

\* the files source.copy puts into the context: those of the root that are
\* not excluded, the renamed ones under their new name
Selected(incl, excl, rename) ==
    {[name |-> IF f \in DOMAIN rename THEN rename[f] ELSE f, origin |-> f] :
        f \in (fs \ Range(excl)) \cup (fs \cap Range(incl))}

\* the archive source.compress_dir leaves in dist/
ContextArchive(incl, excl, rename) ==
    [name |-> Render(pkg_name \o <<".tar.gz">>),
     task |-> task,
     files |-> Selected(incl, excl, rename)]

\* source.copy(...) then source.compress_dir(...): neither goes through the
\* commander's cp, rm, cd or run. source.copy rejects an include list that
\* overlaps the exclude list, and a tracked workspace with nothing to copy
\* when no include list is given
SourceCopy ==
    /\ pc = "copy"
    /\ exclude' = effective_exclude
    /\ rename_files' = rename_map
    /\ IF Range(cfg_include) \cap Range(exclude') # {}
       THEN /\ Raise("ClickException",
                     <<"include and exclude must not have overlapping elements: ",
                       {Render(f) : f \in Range(cfg_include) \cap Range(exclude')}>>)
            /\ UNCHANGED root_dist
       ELSE \/ /\ Goto("cp_dist")
               /\ root_dist' = root_dist
                     \cup {ContextArchive(cfg_include, exclude', rename_files')}
            \/ /\ cfg_include = None
               /\ Raise("ClickException", <<"Could not find tracked files">>)
               /\ UNCHANGED root_dist
    /\ UNCHANGED <<inputs, dependency_files, lock_paths, idx, image_local,
                   image_target, task_pattern_image_map, calls, returned>>
    /\ UNCHANGED <<cwd, env_dist, env_files>>

\* e.cp('dist'): the directory replaces its copy in the environment directory
CpDist ==
    /\ pc = "cp_dist"
    /\ Issue(Cp(<<"dist">>), "cd_env")
    /\ env_dist' = Then(IF cwd = Root THEN root_dist ELSE env_dist, env_dist)
    /\ UNCHANGED <<inputs, dependency_files, lock_paths, idx, image_local,
                   image_target, task_pattern_image_map, returned>>
    /\ UNCHANGED <<cwd, root_dist, env_files, selection>>

CdEnv ==
    /\ pc = "cd_env"
    /\ Issue(Cd(env_name), "docker_build")
    /\ cwd' = Then(Chdir(cwd, env_name), cwd)
    /\ UNCHANGED <<inputs, dependency_files, lock_paths, idx, image_local,
                   image_target, task_pattern_image_map, returned>>
    /\ UNCHANGED <<root_dist, env_dist, env_files, selection>>

\* skip_tests is ignored: the image is always tested
DockerBuild_Mutant ==
    /\ pc = "docker_build"
    /\ image_local' = LocalTag(task)
    /\ Issue(Run(<<(<<"docker">>), (<<"build">>), (<<".">>), (<<"--tag">>), image_local'>>,
                 "Building image"),
             "test_status")
    /\ UNCHANGED <<inputs, dependency_files, lock_paths, idx,
                   image_target, task_pattern_image_map, returned>>
    /\ UNCHANGED <<disk, selection>>

DockerBuild ==
    /\ pc = "docker_build"
    /\ image_local' = LocalTag(task)
    /\ Issue(Run(<<(<<"docker">>), (<<"build">>), (<<".">>), (<<"--tag">>), image_local'>>,
                 "Building image"),
             IF skip_tests THEN "until_build" ELSE "test_status")
    /\ UNCHANGED <<inputs, dependency_files, lock_paths, idx,
                   image_target, task_pattern_image_map, returned>>
    /\ UNCHANGED <<disk, selection>>

TestStatus ==
    /\ pc = "test_status"
    /\ Issue(Run(<<(<<"docker">>), (<<"run">>), image_local, (<<"ploomber">>),
                   (<<"status">>), (<<"--entry-point">>), entry_point>>,
                 "Testing image"),
             "test_client")
    /\ UNCHANGED <<inputs, dependency_files, lock_paths, idx, image_local,
                   image_target, task_pattern_image_map, returned>>
    /\ UNCHANGED <<disk, selection>>

test_cmd ==
    <<"from ploomber.spec import DAGSpec; ", "print(\"File\" in DAGSpec(\"">>
    \o entry_point \o <<"\")", ".to_dag().clients)">>

TestClient ==
    /\ pc = "test_client"
    /\ Issue(Run(<<(<<"docker">>), (<<"run">>), image_local, (<<"python">>),
                   (<<"-c">>), test_cmd>>,
                 "Testing File client"),
             "until_build")
    /\ UNCHANGED <<inputs, dependency_files, lock_paths, idx, image_local,
                   image_target, task_pattern_image_map, returned>>
    /\ UNCHANGED <<disk, selection>>

\* the "build" checkpoint is not honoured
UntilBuild_Mutant ==
    /\ pc = "until_build"
    /\ Goto("publish")
    /\ UNCHANGED <<inputs, dependency_files, lock_paths, idx, image_local,
                   image_target, task_pattern_image_map, calls, returned>>
    /\ UNCHANGED <<disk, selection>>

UntilBuild ==
    /\ pc = "until_build"
    /\ IF until = "build"
       THEN Raise("CommanderStop", <<"Done. Run \"docker images\" to see your image.">>)
       ELSE Goto("publish")
    /\ UNCHANGED <<inputs, dependency_files, lock_paths, idx, image_local,
                   image_target, task_pattern_image_map, calls, returned>>
    /\ UNCHANGED <<disk, selection>>

Tag ==
    /\ pc = "publish"
    /\ repository # None
    /\ image_target' = RemoteTag(repository, task)
    /\ Issue(Run(<<(<<"docker">>), (<<"tag">>), image_local, image_target'>>, "Tagging"),
             "push")
    /\ UNCHANGED <<inputs, dependency_files, lock_paths, idx, image_local,
                   task_pattern_image_map, returned>>
    /\ UNCHANGED <<disk, selection>>

Push ==
    /\ pc = "push"
    /\ Issue(Run(<<(<<"docker">>), (<<"push">>), image_target>>, "Pushing image"),
             "until_push")
    /\ UNCHANGED <<inputs, dependency_files, lock_paths, idx, image_local,
                   image_target, task_pattern_image_map, returned>>
    /\ UNCHANGED <<disk, selection>>

\* the else branch is missing: image_target keeps its previous value
NoRepository_Mutant ==
    /\ pc = "publish"
    /\ repository = None
    /\ Goto("until_push")
    /\ UNCHANGED <<inputs, dependency_files, lock_paths, idx, image_local,
                   image_target, task_pattern_image_map, calls, returned>>
    /\ UNCHANGED <<disk, selection>>

NoRepository ==
    /\ pc = "publish"
    /\ repository = None
    /\ image_target' = image_local
    /\ Goto("until_push")
    /\ UNCHANGED <<inputs, dependency_files, lock_paths, idx, image_local,
                   task_pattern_image_map, calls, returned>>
    /\ UNCHANGED <<disk, selection>>

\* the "push" checkpoint is not honoured
UntilPush_Mutant ==
    /\ pc = "until_push"
    /\ Goto("record")
    /\ UNCHANGED <<inputs, dependency_files, lock_paths, idx, image_local,
                   image_target, task_pattern_image_map, calls, returned>>
    /\ UNCHANGED <<disk, selection>>

UntilPush ==
    /\ pc = "until_push"
    /\ IF until = "push"
       THEN Raise("CommanderStop", <<"Done. Image pushed to repository.">>)
       ELSE Goto("record")
    /\ UNCHANGED <<inputs, dependency_files, lock_paths, idx, image_local,
                   image_target, task_pattern_image_map, calls, returned>>
    /\ UNCHANGED <<disk, selection>>

\* the mapping is rebuilt on every iteration instead of accumulated
Record_Mutant ==
    /\ pc = "record"
    /\ task_pattern_image_map' = [t \in {task} |-> image_target]
    /\ Issue(Rm(<<(<<"dist">>)>>), "cd_back")
    /\ UNCHANGED <<inputs, dependency_files, lock_paths, idx, image_local,
                   image_target, returned>>
    /\ RmDistEffect
    /\ UNCHANGED selection

\* task_pattern_image_map[task] = image_target, then e.rm('dist')
Record ==
    /\ pc = "record"
    /\ task_pattern_image_map' =
          [t \in DOMAIN task_pattern_image_map \cup {task} |->
              IF t = task THEN image_target ELSE task_pattern_image_map[t]]
    /\ Issue(Rm(<<(<<"dist">>)>>), "cd_back")
    /\ UNCHANGED <<inputs, dependency_files, lock_paths, idx, image_local,
                   image_target, returned>>
    /\ RmDistEffect
    /\ UNCHANGED selection

CdBack ==
    /\ pc = "cd_back"
    /\ Issue(Cd(<<"..">>), "loop")
    /\ idx' = idx + 1
    /\ UNCHANGED <<inputs, dependency_files, lock_paths, image_local,
                   image_target, task_pattern_image_map, returned>>
    /\ cwd' = Then(Chdir(cwd, <<"..">>), cwd)
    /\ UNCHANGED <<root_dist, env_dist, env_files, selection>>

Next ==
    \/ CheckDockerfile
    \/ ValidateRepository
    \/ CheckLockFiles
    \/ GetDependencies
    \/ Return
    \/ CpLock
    \/ MultipleLockFiles
    \/ RmPackage
    \/ Sdist
    \/ RmDist
    \/ SourceCopy
    \/ CpDist
    \/ CdEnv
    \/ DockerBuild
    \/ TestStatus
    \/ TestClient
    \/ UntilBuild
    \/ Tag
    \/ Push
    \/ NoRepository
    \/ UntilPush
    \/ Record
    \/ CdBack

Spec == Init /\ [][Next]_vars

----------------------------------------------------------------------------
(* cp_ploomber_home *)

\* what the telemetry home directory may hold
HomeEntries == {"stats", "some-file", "dir/another-file"}

Homes == {None} \cup {<<entries>> : entries \in SUBSET HomeEntries}

\* Path(telemetry.get_home_dir(), 'stats').expanduser().exists()
home_path_exists == home # None /\ "stats" \in home[1]

\* the archive tarfile.open(target, "w:gz") writes, with 'stats' added under
\* the name 'ploomber/stats'
HomeArchive(name) ==
    [name |-> Render(name \o <<".tar.gz">>),
     task |-> Default,
     files |-> {[name |-> <<"ploomber/stats">>, origin |-> <<"stats">>]}]

\* a file written into a directory replaces the file of the same name
WriteInto(dist, archive) == {a \in dist : a.name # archive.name} \cup {archive}

\* cp_ploomber_home is entered in the project root or in the environment
\* directory, with or without a 'dist' directory in either of them
InitHome ==
    /\ home \in Homes
    /\ fs = {Dockerfile}
    /\ repository = None
    /\ until = "None"
    /\ skip_tests = FALSE
    /\ version = <<"latest">>
    /\ cwd \in {Root, env_name}
    /\ root_dist \in {{}, {SdistArchive}}
    /\ env_dist \in {{}, {SdistArchive}}
    /\ cfg_include = None
    /\ cfg_exclude = None
    /\ pc = "home_start"
    /\ dependency_files = <<>>
    /\ lock_paths = <<>>
    /\ idx = 1
    /\ image_local = <<>>
    /\ image_target = <<>>
    /\ task_pattern_image_map = <<>>
    /\ calls = <<>>
    /\ outcome = "running"
    /\ message = <<>>
    /\ returned = <<>>
    /\ env_files = {}
    /\ exclude = <<>>
    /\ rename_files = <<>>

\* cp_ploomber_home(pkg_name): an empty 'dist' stands for a missing or an
\* empty directory, and tarfile.open raises on a missing one
CpPloomberHome ==
    /\ pc = "home_start"
    /\ \E name \in {pkg_name, env_name} :
          IF home_path_exists
          THEN \/ /\ pc' = "done"
                  /\ outcome' = "returned"
                  /\ message' = name
                  /\ root_dist' = IF cwd = Root
                                  THEN WriteInto(root_dist, HomeArchive(name))
                                  ELSE root_dist
                  /\ env_dist' = IF cwd = env_name
                                 THEN WriteInto(env_dist, HomeArchive(name))
                                 ELSE env_dist
               \/ /\ (IF cwd = Root THEN root_dist ELSE env_dist) = {}
                  /\ Raise("FileNotFoundError", name)
                  /\ UNCHANGED <<root_dist, env_dist>>
          ELSE /\ pc' = "done"
               /\ outcome' = "returned"
               /\ message' = name
               /\ UNCHANGED <<root_dist, env_dist>>
    /\ UNCHANGED <<inputs, dependency_files, lock_paths, idx, image_local,
                   image_target, task_pattern_image_map, calls, returned>>
    /\ UNCHANGED <<cwd, env_files, selection>>

NextHome == CpPloomberHome

SpecHome == InitHome /\ [][NextHome]_vars

----------------------------------------------------------------------------
(* Vocabulary of the properties *)

\* what a commander operation is: cp, rm, cd, or the kind of command run
Kind(c) ==
    IF c.op # "run" THEN c.op
    ELSE IF c.args[1] = "python" THEN "sdist"
    ELSE IF c.args[2] = "run"
         THEN (IF c.args[4] = "ploomber" THEN "status" ELSE "probe")
         ELSE c.args[2]

IsRun(c) == c.op = "run"

RunCalls == SelectSeq(calls, IsRun)

RunKinds == [k \in 1..Len(RunCalls) |-> Kind(RunCalls[k])]

Failed == outcome \in {"MissingDockerfileError", "ConfigurationError",
                      "ClickException", "NotImplementedError",
                      "CommanderException"}

Halted == outcome = "CommanderStop"

\* the package path prepends the source-distribution build to the run trace
PackagingRuns == IF SetupPy \in fs THEN <<"sdist">> ELSE <<>>

\* the dependency group a call belongs to: one more than the iterations closed
GroupOf(k) ==
    1 + Cardinality({j \in 1..(k - 1) :
                       calls[j].op = "cd" /\ calls[j].args = <<"..">> /\ calls[j].ok})

TaskOf(k) == lock_paths[GroupOf(k)].task

\* the pattern with every '*' replaced by 'ploomber'
Normalized(p) == [k \in 1..Len(p) |-> IF p[k] = "*" THEN "ploomber" ELSE p[k]]

ExpectedLocal(p) ==
    Render(pkg_name) \o ":" \o Render(version) \o "-" \o Render(Normalized(p))

----------------------------------------------------------------------------
(* C1 *)

\* C1, as stated: with until='build' and skip_tests=false on a project that
\* passes every precondition, the commands issued through run are exactly
\* [docker build, status check, capability probe], then CommanderStop is
\* raised; no docker tag and no docker push is issued.
C1_AsStated ==
    (pc = "done" /\ until = "build" /\ ~skip_tests /\ ~Failed) =>
        /\ Halted
        /\ RunKinds = <<"build", "status", "probe">>

\* C1, amended: with until='build' and skip_tests=false on a project that
\* passes every precondition, the docker commands issued through run are
\* exactly [docker build, status check, capability probe], preceded by
\* 'python -m build --sdist' when setup.py lies at the root; then
\* CommanderStop is raised. No docker tag or docker push is ever issued
\* under until='build', whatever the repository.
C1_UntilBuild ==
    /\ (pc = "done" /\ until = "build" /\ ~skip_tests /\ ~Failed) =>
          /\ Halted
          /\ Render(message) = "Done. Run \"docker images\" to see your image."
          /\ RunKinds = PackagingRuns \o <<"build", "status", "probe">>
          /\ returned = <<>>
    /\ until = "build" =>
          \A k \in 1..Len(calls) : Kind(calls[k]) \notin {"tag", "push"}

C1_Witness ==
    /\ pc = "done" /\ until = "build" /\ ~skip_tests /\ Halted
    /\ repository = PlainRepository
    /\ SetupPy \notin fs
    /\ Len(calls) > 3

----------------------------------------------------------------------------
(* C2 *)

\* C2, as stated: with until='push', skip_tests=false and a repository, the
\* commands issued are exactly [docker build, status check, capability probe,
\* docker tag <local> <remote>, docker push <remote>], the halt follows the
\* push and nothing is returned.
C2_AsStated ==
    (pc = "done" /\ until = "push" /\ ~skip_tests /\ repository # None /\ ~Failed) =>
        /\ Halted
        /\ RunKinds = <<"build", "status", "probe", "tag", "push">>
        /\ returned = <<>>

\* C2, amended: with until='push', skip_tests=false and a repository, the
\* docker commands issued are exactly [build, status check, probe,
\* tag <local> <remote>, push <remote>], preceded by 'python -m build --sdist'
\* when setup.py lies at the root; the halt is raised right after the push
\* returns, and no result mapping is returned.
C2_UntilPush ==
    (pc = "done" /\ until = "push" /\ ~skip_tests /\ repository # None /\ ~Failed) =>
        LET n == Len(calls)
            local == ExpectedLocal(lock_paths[1].task)
        IN  /\ Halted
            /\ Render(message) = "Done. Image pushed to repository."
            /\ RunKinds = PackagingRuns \o <<"build", "status", "probe", "tag", "push">>
            /\ Kind(calls[n]) = "push" /\ calls[n].ok
            /\ Kind(calls[n - 1]) = "tag"
            /\ calls[n - 1].args[3] = local
            /\ calls[n - 1].args[4] = calls[n].args[3]
            /\ returned = <<>>
            /\ idx = 1

C2_Witness ==
    /\ pc = "done" /\ until = "push" /\ ~skip_tests /\ Halted
    /\ repository = TaggedRepository
    /\ Len(lock_paths) > 1

----------------------------------------------------------------------------
(* C3 *)

\* C3, as stated: a placeholder repository makes build fail with
\* ConfigurationError "Invalid repository 'your-repository/name' ..." before
\* any commander operation, for every until and skip_tests.
C3_AsStated ==
    (pc = "done" /\ repository = Placeholder) =>
        /\ outcome = "ConfigurationError"
        /\ calls = <<>>

\* C3, amended: when <env_name>/Dockerfile exists and the repository is the
\* placeholder, build fails with ConfigurationError whose message starts with
\* "Invalid repository 'your-repository/name'", no commander operation having
\* been issued, for every until and skip_tests.
C3_PlaceholderRepository ==
    /\ (pc = "done" /\ repository = Placeholder /\ Dockerfile \in fs) =>
          /\ outcome = "ConfigurationError"
          /\ Len(message) >= 4
          /\ Render(SubSeq(message, 1, 4)) = "Invalid repository 'your-repository/name'"
    /\ repository = Placeholder =>
          /\ calls = <<>>
          /\ pc \in {"start", "validate", "done"}

C3_Witness ==
    /\ outcome = "ConfigurationError"
    /\ repository = Placeholder
    /\ until = "push" /\ skip_tests

----------------------------------------------------------------------------
(* C4 *)

\* C4: without <env_name>/Dockerfile build fails with MissingDockerfileError
\* carrying env_name before anything else: no commander operation is issued,
\* also when the repository is the placeholder or no lock file exists.
C4_MissingDockerfile ==
    Dockerfile \notin fs =>
        /\ pc \in {"start", "done"}
        /\ calls = <<>>
        /\ pc = "done" => (outcome = "MissingDockerfileError" /\ message = env_name)

C4_Witness ==
    /\ outcome = "MissingDockerfileError"
    /\ repository = Placeholder
    /\ ~check_lock_files_exist

----------------------------------------------------------------------------
(* C5 *)

IsPublish(k) == Kind(calls[k]) \in {"tag", "push"}

\* the remote argument of a docker tag or docker push call
RemoteArg(k) == IF Kind(calls[k]) = "tag" THEN calls[k].args[4] ELSE calls[k].args[3]

ExpectedRemote(p) ==
    IF Contains(repository, ":") THEN Render(repository)
    ELSE Render(repository) \o ":" \o Render(version) \o "-" \o Render(Normalized(p))

----------------------------------------------------------------------------
(* C6 *)

----------------------------------------------------------------------------
(* C7 *)

\* C7: without a repository (None or empty) no docker tag and no docker push
\* is ever issued, and the reference recorded for each group in the result
\* mapping is that group's local tag.
C7_NoRepository ==
    repository = None =>
        /\ \A k \in 1..Len(calls) : ~IsPublish(k)
        /\ \A t \in DOMAIN task_pattern_image_map :
              Render(task_pattern_image_map[t]) = ExpectedLocal(t)
        /\ outcome = "returned" =>
              /\ returned[2] = task_pattern_image_map
              /\ DOMAIN returned[2] = {lock_paths[k].task : k \in DOMAIN lock_paths}

C7_Witness ==
    /\ outcome = "returned"
    /\ repository = None
    /\ Cardinality(DOMAIN returned[2]) >= 2

----------------------------------------------------------------------------
(* C8 *)

IsDockerStep(c) == Kind(c) \in {"build", "tag", "push"}

\* the docker build, tag and push command lines issued, in order
DockerSteps ==
    LET cs == SelectSeq(calls, IsDockerStep) IN [k \in 1..Len(cs) |-> cs[k].args]

\* the build, tag and push command lines of one group, from build's arguments
\* other than skip_tests
GroupSteps(p) ==
    <<(<<"docker", "build", ".", "--tag", ExpectedLocal(p)>>)>>
    \o (IF until = "build" \/ repository = None THEN <<>>
        ELSE <<(<<"docker", "tag", ExpectedLocal(p), ExpectedRemote(p)>>),
               (<<"docker", "push", ExpectedRemote(p)>>)>>)

RECURSIVE StepsFrom(_)
StepsFrom(k) ==
    IF k > Len(lock_paths) THEN <<>>
    ELSE GroupSteps(lock_paths[k].task) \o (IF until = "None" THEN StepsFrom(k + 1) ELSE <<>>)

\* C8: with skip_tests=true no 'docker run' command is ever issued, neither
\* the status check nor the capability probe, and the docker build, tag and
\* push commands of a run that ends without failure are those of the same
\* run with skip_tests=false: they are a function of the other arguments.
C8_SkipTests ==
    /\ skip_tests => \A k \in 1..Len(calls) : Kind(calls[k]) \notin {"status", "probe"}
    /\ (pc = "done" /\ ~Failed) => DockerSteps = StepsFrom(1)
    /\ (pc = "done" /\ ~Failed /\ ~skip_tests) =>
          \A k \in 1..Len(calls) : Kind(calls[k]) = "build" =>
              /\ Kind(calls[k + 1]) = "status"
              /\ Kind(calls[k + 2]) = "probe"

C8_Witness ==
    /\ outcome = "returned"
    /\ skip_tests
    /\ repository = PlainRepository
    /\ Len(DockerSteps) = 6

----------------------------------------------------------------------------
(* C9 *)

NonDefaultGroups == {k \in DOMAIN lock_paths : lock_paths[k].task # Default}

\* the first iteration got past e.cp(lock_file), to the packaging decision
ReachedPackaging ==
    /\ lock_paths # <<>>
    /\ calls # <<>>
    /\ calls[1].ok

\* C9: with setup.py at the root, packaging fails with ConfigurationError when
\* there are two non-default dependency groups, and succeeds (goes on to the
\* source-distribution build) when there is exactly one dependency group.
C9_PackageGroups ==
    (pc = "done" /\ SetupPy \in fs /\ ReachedPackaging) =>
        /\ Cardinality(NonDefaultGroups) = 2 => outcome = "ConfigurationError"
        /\ Len(lock_paths) = 1 =>
              /\ outcome \notin {"ConfigurationError", "NotImplementedError"}
              /\ outcome # "CommanderException" =>
                    \E k \in 1..Len(calls) : Kind(calls[k]) = "sdist"

----------------------------------------------------------------------------
(* C10 *)

\* C10: when build returns normally the mapping has exactly one entry per
\* discovered dependency group, keyed by its task pattern; each value is the
\* reference the group was published under: the remote tag that was pushed
\* if a repository is configured, otherwise the local tag that was built;
\* the resolved package name is returned with it.
C10_Result ==
    outcome = "returned" =>
        /\ Len(returned) = 2
        /\ returned[1] = pkg_name
        /\ DOMAIN returned[2] = {lock_paths[k].task : k \in DOMAIN lock_paths}
        /\ Cardinality(DOMAIN returned[2]) = Len(lock_paths)
        /\ \A g \in DOMAIN lock_paths :
              LET p == lock_paths[g].task
                  ref == Render(returned[2][p])
              IN  /\ ref = IF repository # None THEN ExpectedRemote(p) ELSE ExpectedLocal(p)
                  /\ \E k \in 1..Len(calls) :
                        /\ GroupOf(k) = g
                        /\ calls[k].ok
                        /\ IF repository # None
                           THEN calls[k].args = <<"docker", "push", ref>>
                           ELSE calls[k].args = <<"docker", "build", ".", "--tag", ref>>

C10_Witness ==
    /\ outcome = "returned"
    /\ Len(lock_paths) = 3
    /\ repository = PlainRepository
    /\ Render(returned[2][<<"fit", "-", "*">>]) = "repo.example.com/project:1.2-fit-ploomber"

----------------------------------------------------------------------------
(* C11 *)

\* C11: when a commander operation fails during the iteration of a group
\* (packaging, docker build, status check, capability probe, tag or push), no
\* further commander operation is issued for that group or a later one, and
\* build returns no result mapping; a failed status check leaves the
\* capability probe unrun.
C11_FailureAborts ==
    /\ \A k \in 1..Len(calls) : ~calls[k].ok =>
          /\ k = Len(calls)
          /\ pc = "done"
          /\ outcome = "CommanderException"
          /\ returned = <<>>
    /\ Failed => (pc = "done" /\ returned = <<>>)
    /\ returned # <<>> => \A k \in 1..Len(calls) : calls[k].ok

C11_Witness ==
    /\ outcome = "CommanderException"
    /\ Len(lock_paths) = 3
    /\ GroupOf(Len(calls)) = 2
    /\ Kind(calls[Len(calls)]) = "status"
    /\ ~calls[Len(calls)].ok
    /\ DOMAIN task_pattern_image_map # {}

----------------------------------------------------------------------------
(* C12 *)

\* what a call is about: its kind and the file, directory or tag it names
Summary(c) ==
    <<Kind(c),
      CASE Kind(c) = "build" -> c.args[5]
        [] Kind(c) \in {"status", "probe", "push"} -> c.args[3]
        [] Kind(c) = "tag" -> c.args[4]
        [] Kind(c) = "sdist" -> ""
        [] OTHER -> c.args[1]>>

Trace == [k \in 1..Len(calls) |-> Summary(calls[k])]

\* the calls of one group with until=None: packaging, docker build, the tests
\* unless skipped, tag and push if a repository is set, then the clean-up
GroupTrace(g) ==
    LET p == lock_paths[g].task
    IN  <<(<<"cp", Render(lock_paths[g].lock)>>), (<<"rm", "dist">>)>>
        \o (IF SetupPy \in fs THEN <<(<<"sdist", "">>)>> ELSE <<>>)
        \o <<(<<"cp", "dist">>), (<<"cd", Render(env_name)>>),
             (<<"build", ExpectedLocal(p)>>)>>
        \o (IF skip_tests THEN <<>>
            ELSE <<(<<"status", ExpectedLocal(p)>>), (<<"probe", ExpectedLocal(p)>>)>>)
        \o (IF repository = None THEN <<>>
            ELSE <<(<<"tag", ExpectedRemote(p)>>), (<<"push", ExpectedRemote(p)>>)>>)
        \o <<(<<"rm", "dist">>), (<<"cd", "..">>)>>

RECURSIVE TraceFrom(_)
TraceFrom(g) ==
    IF g > Len(lock_paths) THEN <<>> ELSE GroupTrace(g) \o TraceFrom(g + 1)

IsPrefix(a, b) == Len(a) <= Len(b) /\ a = SubSeq(b, 1, Len(a))

\* C12: with until=None the groups are processed one at a time in discovery
\* order: the command trace is the concatenation, group by group, of
\* [packaging, docker build, (status check, probe unless skip_tests), (tag,
\* push if a repository is set)], and no command of group i+1 is issued before
\* the last command of group i has returned.
C12_Sequential ==
    until = "None" =>
        /\ IsPrefix(Trace, TraceFrom(1))
        /\ outcome = "returned" => Trace = TraceFrom(1)
        /\ \A k \in 1..(Len(calls) - 1) : calls[k].ok

C12_Witness ==
    /\ outcome = "returned"
    /\ until = "None"
    /\ Len(lock_paths) = 3
    /\ ~skip_tests
    /\ repository = PlainRepository
    /\ Len(calls) = 3 * 11

----------------------------------------------------------------------------
(* C13 *)

\* the iteration of some group has recorded its entry and removed 'dist'
Recorded ==
    \/ pc = "cd_back"
    \/ pc = "loop" /\ idx > 1
    \/ outcome = "returned"

\* the group whose entry was recorded last
LastRecorded == IF pc = "cd_back" THEN idx ELSE idx - 1

\* C13 as stated: once an iteration has recorded its entry, 'dist' exists
\* neither in the project root nor in the environment directory, before the
\* next iteration starts and when build returns.
C13_AsStated ==
    Recorded => (root_dist = {} /\ env_dist = {})

\* C13: once an iteration has recorded its entry, the copy of 'dist' in the
\* environment directory no longer exists, while 'dist' of the project root
\* still holds the archive of that group: it is removed only by the packaging
\* step of the next iteration and is left in place when build returns.
C13_ContextDiscarded ==
    /\ Recorded =>
          /\ env_dist = {}
          /\ Cardinality(root_dist) = 1
          /\ \A a \in root_dist : a.task = lock_paths[LastRecorded].task
    /\ pc \in {"sdist", "copy"} => root_dist = {}
    /\ pc \in {"docker_build", "record"} => (env_dist = root_dist /\ env_dist # {})

C13_Witness ==
    /\ outcome = "returned"
    /\ Len(lock_paths) = 2
    /\ env_dist = {}
    /\ \E a \in root_dist : a.task = lock_paths[2].task /\ a.task # Default

----------------------------------------------------------------------------
(* C14 *)

\* source selection has been called for the group at hand, in the
\* non-package path
SelectionDone ==
    /\ SetupPy \notin fs
    /\ \/ pc = "cp_dist"
       \/ pc = "done" /\ outcome = "ClickException" /\ calls # <<>>

OwnLockFile == lock_paths[idx].lock

OtherLockFiles == {lock_paths[k].lock : k \in DOMAIN lock_paths \ {idx}}

\* the archive packaged for the group at hand
Context == {a \in root_dist : pc = "cp_dist" /\ a.task = lock_paths[idx].task}

\* C14 as stated: the exclude list handed to source selection contains the
\* lock file of every other group and every entry of the configured exclude
\* list, and does not contain the group's own lock file; the packaged context
\* holds no other group's lock file.
C14_AsStated ==
    SelectionDone =>
        /\ OtherLockFiles \subseteq Range(exclude)
        /\ Range(cfg_exclude) \subseteq Range(exclude)
        /\ OwnLockFile \notin Range(exclude)
        /\ \A a \in Context : \A f \in a.files : f.origin \notin OtherLockFiles

\* C14: the exclude list handed to source selection holds exactly the entries
\* of the configured exclude list and the lock files of the other groups, so
\* it contains the group's own lock file if and only if the configured exclude
\* list names it; the packaged context holds no other group's lock file.
C14_Exclude ==
    SelectionDone =>
        /\ Range(exclude) = Range(cfg_exclude) \cup OtherLockFiles
        /\ OwnLockFile \in Range(exclude) <=> OwnLockFile \in Range(cfg_exclude)
        /\ \A a \in Context : \A f \in a.files : f.origin \notin OtherLockFiles

C14_Witness ==
    /\ pc = "cp_dist"
    /\ SetupPy \notin fs
    /\ Len(lock_paths) = 3
    /\ idx = 2
    /\ cfg_exclude = <<Secrets>>
    /\ Len(exclude) = 3
    /\ \E a \in Context :
          /\ \E f \in a.files : f.origin = OwnLockFile
          /\ Cardinality(a.files) = Cardinality(fs) - 2

----------------------------------------------------------------------------
(* C15 *)

\* some 'dist' directory holds an entry 'ploomber'
HoldsPloomber(dist) == \E a \in dist : a.name = "ploomber"

\* C15: build merges the host's telemetry home directory, when it exists,
\* into the build context under dist/ploomber of the environment directory:
\* when the image is built, and after a successful build with the home
\* directory present, dist/ploomber holds the home directory's files.
C15_HomeMerged ==
    home # None =>
        /\ pc = "docker_build" => HoldsPloomber(env_dist)
        /\ outcome = "returned" => HoldsPloomber(env_dist \cup root_dist)

----------------------------------------------------------------------------
(* C16 *)

\* C16: after cp_ploomber_home has run, the directory dist/ploomber exists in
\* the target environment, whether or not the host's telemetry home directory
\* exists: an absent home directory yields an empty placeholder directory.
C16_Placeholder ==
    (pc = "done" /\ outcome = "returned" /\ message = env_name) =>
        HoldsPloomber(env_dist)

----------------------------------------------------------------------------
(* C17 *)

Requirements == <<"requirements", "txt">>

Environment == <<"environment", "yml">>

\* the task patterns that have a declaration/lock pair of a kind at the root
PairTasks(kind) ==
    {t \in Patterns : {DeclarationFile(kind, t), LockFile(kind, t)} \subseteq fs}

\* the groups are exactly the pairs of one kind
GroupsAre(kind) ==
    /\ {dependency_files[k].task : k \in DOMAIN dependency_files} = PairTasks(kind)
    /\ Len(dependency_files) = Cardinality(PairTasks(kind))
    /\ \A k \in DOMAIN dependency_files :
          /\ dependency_files[k].dependency = DeclarationFile(kind, dependency_files[k].task)
          /\ dependency_files[k].lock = LockFile(kind, dependency_files[k].task)

\* C17: get_dependencies gives requirements-style files precedence: if at
\* least one requirements pair is discovered the groups and lock paths are
\* exactly the requirements ones; environment-style groups are returned only
\* when the requirements discovery is empty; the two kinds are never merged,
\* and lock_paths has the keys of dependency_files.
C17_Precedence ==
    pc \notin {"start", "validate", "locks", "deps"} /\ dependency_files # <<>> =>
        /\ IF PairTasks(Requirements) # {}
           THEN GroupsAre(Requirements)
           ELSE GroupsAre(Environment)
        /\ DOMAIN lock_paths = DOMAIN dependency_files
        /\ \A k \in DOMAIN lock_paths :
              /\ lock_paths[k].task = dependency_files[k].task
              /\ lock_paths[k].lock = dependency_files[k].lock

C17_Witness ==
    /\ pc = "loop"
    /\ PairTasks(Requirements) = {Default}
    /\ Cardinality(PairTasks(Environment)) = 2
    /\ Len(dependency_files) = 1
    /\ lock_paths[1].lock = LockFile(Requirements, Default)

----------------------------------------------------------------------------
(* C18 *)

\* the include entries that the effective exclude list of the group at hand
\* names as well
Overlap == Range(cfg_include) \cap (Range(cfg_exclude) \cup OtherLockFiles)

\* C18: a selection request whose include and exclude sets overlap fails
\* with an error naming exactly the intersection and copies no file; in build
\* the exclude set is the effective one (configured exclude plus the other
\* groups' lock files), so an include entry that is another group's lock file
\* makes the iteration fail: no context is packaged, no further command is
\* issued and the group is not recorded.
C18_Overlap ==
    SelectionDone =>
        IF Overlap # {}
        THEN /\ pc = "done"
             /\ message = <<"include and exclude must not have overlapping elements: ",
                            {Render(f) : f \in Overlap}>>
             /\ root_dist = {}
             /\ Summary(calls[Len(calls)]) = <<"rm", "dist">>
             /\ lock_paths[idx].task \notin DOMAIN task_pattern_image_map
             /\ returned = <<>>
        ELSE /\ pc = "done" => message = <<"Could not find tracked files">>
             /\ pc = "cp_dist" => Context # {}

C18_Witness ==
    /\ outcome = "ClickException"
    /\ SetupPy \notin fs
    /\ idx = 2
    /\ DOMAIN task_pattern_image_map # {}
    /\ Overlap = {LockFile(Requirements, <<"fit", "-", "*">>)}
    /\ message[2] = {"requirements.fit-*.lock.txt"}
    /\ root_dist = {}

----------------------------------------------------------------------------
(* C19 *)

\* no lock file of either kind lies at the root
NoLockFile ==
    /\ LockFile(Requirements, Default) \notin fs
    /\ LockFile(Environment, Default) \notin fs

\* C19: the lock-file check runs before dependency discovery and before any
\* commander operation: when no lock file of either kind exists at the root
\* and the Dockerfile and repository preconditions pass, build fails with the
\* missing-lock-file error, without having called get_dependencies and
\* without having issued cp, rm, cd or run.
C19_LockFilesFirst ==
    NoLockFile =>
        /\ pc \in {"start", "validate", "locks", "done"}
        /\ calls = <<>>
        /\ dependency_files = <<>> /\ lock_paths = <<>>
        /\ (pc = "done" /\ Dockerfile \in fs /\ repository # Placeholder) =>
              /\ outcome = "ClickException"
              /\ Render(message) =
                    "Expected requirements.lock.txt or environment.lock.yml at the root directory"

C19_Witness ==
    /\ NoLockFile
    /\ fs = {Dockerfile, SetupPy}
    /\ repository = PlainRepository
    /\ outcome = "ClickException"
    /\ calls = <<>>

----------------------------------------------------------------------------
(* C20 *)

\* the kind of a lock file is the first part of its name
IsRequirementsStyle(file) == file[1] = "requirements"

IsEnvironmentStyle(file) == file[1] = "environment"

\* C20: in the non-package path the rename map passed to source selection
\* maps exactly the lock file of the group at hand to its canonical name:
\* 'requirements.lock.txt' if and only if it is a requirements-style lock
\* file, 'environment.lock.yml' if and only if it is an environment-style
\* one, for every task pattern, those that contain the word 'requirements'
\* included.
C20_RenameMap ==
    SelectionDone =>
        /\ DOMAIN rename_files = {OwnLockFile}
        /\ Render(rename_files[OwnLockFile]) = "requirements.lock.txt"
              <=> IsRequirementsStyle(OwnLockFile)
        /\ Render(rename_files[OwnLockFile]) = "environment.lock.yml"
              <=> IsEnvironmentStyle(OwnLockFile)

----------------------------------------------------------------------------
(* C21 *)

\* setup.py lies at the root and the only group is 'default'
PackagePath ==
    /\ SetupPy \in fs
    /\ Len(lock_paths) = 1
    /\ lock_paths[1].task = Default

Kinds_of_calls == [k \in 1..Len(calls) |-> Kind(calls[k])]

----------------------------------------------------------------------------
(* C22 *)

\* build ended with the halt signal of the stop token 'push'
HaltedAtPush ==
    Halted /\ Render(message) = "Done. Image pushed to repository."

\* C22: whenever build ends with the halt signal for the stop token 'push'
\* (message 'Image pushed to repository'), a docker push command was issued
\* and returned successfully earlier in the same iteration: the push
\* checkpoint is never reached without a push, also when no repository is
\* configured.
C22_PushBeforeHalt ==
    HaltedAtPush =>
        \E k \in 1..Len(calls) :
            /\ Kind(calls[k]) = "push"
            /\ calls[k].ok
            /\ GroupOf(k) = idx

----------------------------------------------------------------------------
(* C23 *)

BuildCalls == {k \in 1..Len(calls) : Kind(calls[k]) = "build"}

\* C23: when a stop token ('build' or 'push') is given and there are N >= 2
\* dependency groups, the halt is raised during the first group's iteration:
\* exactly one docker build command is issued in the whole run, no command is
\* ever issued for groups 2..N, and the result mapping is never populated or
\* returned.
C23_HaltInFirstGroup ==
    (until \in {"build", "push"} /\ Len(lock_paths) >= 2) =>
        /\ idx = 1
        /\ \A k \in 1..Len(calls) : GroupOf(k) = 1
        /\ \A k \in 1..Len(calls) :
              /\ calls[k].op = "cp" => calls[k].args[1] \in {"dist", Render(lock_paths[1].lock)}
              /\ Kind(calls[k]) \in {"build", "status", "probe"} =>
                    Summary(calls[k])[2] = ExpectedLocal(lock_paths[1].task)
              /\ Kind(calls[k]) \in {"tag", "push"} =>
                    Summary(calls[k])[2] = ExpectedRemote(lock_paths[1].task)
        /\ Cardinality(BuildCalls) <= 1
        /\ task_pattern_image_map = <<>>
        /\ returned = <<>> /\ outcome # "returned"
        /\ (pc = "done" /\ ~Failed) => (Halted /\ Cardinality(BuildCalls) = 1)

C23_Witness ==
    /\ Halted
    /\ until = "push"
    /\ Len(lock_paths) = 3
    /\ repository = PlainRepository
    /\ Cardinality(BuildCalls) = 1
    /\ Kind(calls[Len(calls)]) = "push"

----------------------------------------------------------------------------
(* C24 *)

\* the calls of a kind, as pairs of the group and the tag they name
TagsOf(kind) ==
    {<<GroupOf(k), Summary(calls[k])[2]>> : k \in {j \in 1..Len(calls) : Kind(calls[j]) = kind}}

Injective(pairs) ==
    \A a \in pairs : \A b \in pairs : a[1] # b[1] => a[2] # b[2]

\* C24: in any run that returns normally, distinct task patterns are recorded
\* with distinct image references: no two groups are built under the same
\* local tag and no two groups are tagged and pushed to the same remote tag,
\* so a later group's image never overwrites an earlier group's image.
C24_DistinctImages ==
    outcome = "returned" =>
        /\ \A t1 \in DOMAIN returned[2] : \A t2 \in DOMAIN returned[2] :
              t1 # t2 => returned[2][t1] # returned[2][t2]
        /\ Injective(TagsOf("build"))
        /\ Injective(TagsOf("push"))

----------------------------------------------------------------------------
(* C25 *)

\* the cd commands that returned, into the environment directory and back
CdIn == {k \in 1..Len(calls) : calls[k].op = "cd" /\ calls[k].args = <<"serve">> /\ calls[k].ok}

CdOut == {k \in 1..Len(calls) : calls[k].op = "cd" /\ calls[k].args = <<"..">> /\ calls[k].ok}

\* C25 as stated: every cd into the environment directory is matched by a cd
\* back before the next iteration starts, and the working directory is the
\* project root whenever build terminates: on normal return, on a halt at
\* either checkpoint, and on a failed command.
C25_AsStated ==
    /\ pc = "loop" => cwd = Root
    /\ pc = "done" => cwd = Root

\* C25: every cd into the environment directory is matched by a cd back
\* before the next iteration starts, and the working directory is the project
\* root when build returns normally or fails before its cd into the
\* environment directory; when build halts at either checkpoint, or a command
\* fails between the cd into the environment directory and the cd back, build
\* terminates with the environment directory as working directory.
C25_WorkingDirectory ==
    /\ Cardinality(CdIn) - Cardinality(CdOut) \in {0, 1}
    /\ cwd = IF Cardinality(CdIn) = Cardinality(CdOut) THEN Root ELSE env_name
    /\ pc = "loop" => cwd = Root
    /\ outcome = "returned" => cwd = Root
    /\ Halted => cwd = env_name
    /\ outcome \in {"MissingDockerfileError", "ConfigurationError", "ClickException",
                    "NotImplementedError"} => cwd = Root

C25_Witness ==
    /\ Halted
    /\ until = "build"
    /\ cwd = env_name
    /\ Cardinality(CdIn) = 1
    /\ CdOut = {}

----------------------------------------------------------------------------
(* C26 *)

\* C26: at the moment 'docker build .' is invoked for a group, the
\* environment directory, which the builder receives as its context, contains
\* no lock file of a different group: the lock files copied there by earlier
\* iterations are no longer there.
C26_NoForeignLockFile ==
    pc = "docker_build" => env_files \cap OtherLockFiles = {}

----------------------------------------------------------------------------
(* C27 *)

\* build failed because setup.py coexists with task-specific lock files
MultiLockError == outcome = "NotImplementedError"

\* C27 as stated: the package-manifest/multi-lock error is raised with the
\* filesystem untouched: no commander operation (cp, rm, cd, run) has been
\* performed and no file has been copied into the environment directory.
C27_AsStated ==
    MultiLockError => (calls = <<>> /\ env_files = {})

\* C27: the package-manifest/multi-lock error is raised in the first
\* iteration, after the first group's lock file has been copied into the
\* environment directory by one cp and before any rm, cd or run: no dist
\* directory is removed or written and the working directory is the root.
C27_MultiLockError ==
    /\ MultiLockError =>
          /\ SetupPy \in fs
          /\ \E k \in DOMAIN lock_paths : lock_paths[k].task # Default
          /\ idx = 1
          /\ Trace = <<(<<"cp", Render(lock_paths[1].lock)>>)>>
          /\ calls[1].ok
          /\ env_files = {lock_paths[1].lock}
          /\ root_dist = {} /\ env_dist = {}
          /\ cwd = Root
          /\ task_pattern_image_map = <<>> /\ returned = <<>>
    /\ (SetupPy \in fs /\ \E k \in DOMAIN lock_paths : lock_paths[k].task # Default) =>
          /\ Len(calls) <= 1
          /\ (pc = "done" /\ outcome # "CommanderException") => MultiLockError

C27_Witness ==
    /\ MultiLockError
    /\ Len(lock_paths) = 2
    /\ lock_paths[1].task = Default
    /\ Len(calls) = 1
    /\ env_files = {LockFile(Requirements, Default)}

====
